---- MODULE Spec2Model ----
(***************************************************************************)
(* A model of digits.py: matchstick glyphs as translation-invariant stick  *)
(* collections, the reachability catalog between glyphs, the expression    *)
(* evaluator with chained equalities, and the single-move substitution     *)
(* search.  Positions are 0-based as in the source; TLA+ sequences are     *)
(* 1-based, so position p of an expression is element p + 1.               *)
(***************************************************************************)
EXTENDS Integers, Sequences, FiniteSets, TLC

\* ------------------------------------------------------------------ bounds

\* Largest number of sticks of a shape drawn as input of the shape comparison.
MaxSticks == 3
\* Largest length of an alphabet drawn as input of the catalog construction.
MaxAlphabet == 2
\* Largest number of symbols of the first operand of an evaluated expression.
MaxOperandLen == 4
\* Largest number of equality operators of an evaluated chain.
MaxEq == 3

\* ------------------------------------------------------------------- Stick

VERTICAL == "|"
HORIZONTAL == "_"

Stick(row, column, orientation) ==
    [row |-> row, column |-> column, orientation |-> orientation]

\* ---------------------------------------------------------- StickCollection

MinOf(S) == CHOOSE m \in S : \A x \in S : m <= x

RECURSIVE Sorted(_)
Sorted(S) == IF S = {} THEN << >>
             ELSE LET m == MinOf(S) IN <<m>> \o Sorted(S \ {m})

\* Variant of StickCollection.__init__ that shifts the rows only.
StickCollectionRowsOnly(sticks) ==
    LET min_row == IF sticks # {} THEN MinOf({s.row : s \in sticks}) ELSE 0
    IN  [sticks |-> sticks,
         normalized_sticks |->
             {Stick(s.row - min_row, s.column, s.orientation) : s \in sticks}]

\* StickCollection.__init__: the sticks and their normalized form, every
\* stick shifted so that the least row and the least column are 0.
StickCollection(sticks) ==
    LET min_row == IF sticks # {} THEN MinOf({s.row : s \in sticks}) ELSE 0
        min_col == IF sticks # {} THEN MinOf({s.column : s \in sticks}) ELSE 0
    IN  [sticks |-> sticks,
         normalized_sticks |->
             {Stick(s.row - min_row, s.column - min_col, s.orientation) :
                 s \in sticks}]

\* StickCollection.__eq__ (and __hash__, which hashes the same set).
SticksEq(a, b) == a.normalized_sticks = b.normalized_sticks

\* StickCollection.__len__
SticksLen(a) == Cardinality(a.sticks)

\* StickCollection.__add__
SticksAdd(a, stick) == StickCollection(a.sticks \cup {stick})

\* StickCollection.__sub__
SticksSub(a, stick) ==
    IF stick \notin a.sticks THEN a
    ELSE StickCollection(a.sticks \ {stick})

\* StickCollection.removal_set: a Python set, so collections that compare
\* equal are kept once.
SticksRemovalSet(a) ==
    LET all == {SticksSub(a, stick) : stick \in a.sticks}
    IN  {CHOOSE r \in all : SticksEq(r, x) : x \in all}

\* StickCollection.from_dict on {row: {column: [orientations]}}, the dict
\* given as a set of <<row, column, orientation>> entries.
FromDict(entries) ==
    StickCollection({Stick(e[1], e[2], e[3]) : e \in entries})

DIGIT_STICKS ==
    FromDict({<<0, 1, HORIZONTAL>>,
              <<4, 0, VERTICAL>>, <<4, 1, HORIZONTAL>>, <<4, 2, VERTICAL>>,
              <<8, 0, VERTICAL>>, <<8, 1, HORIZONTAL>>, <<8, 2, VERTICAL>>})

OPERATOR_STICKS ==
    FromDict({<<1, 1, HORIZONTAL>>, <<2, 1, HORIZONTAL>>,
              <<3, 1, HORIZONTAL>>, <<4, 1, VERTICAL>>})

\* ------------------------------------------------------------------ Symbol

\* Symbol.__init__ (Digit.__init__ passes str(value) as the code).  The code
\* is the sequence of its characters; kind is the class of the instance.
Symbol(sticks, code, name, kind) ==
    [name |-> name, sticks |-> sticks, code |-> code, kind |-> kind]

\* Symbol.__eq__ (and __hash__): by shape only.
SymEq(x, y) == SticksEq(x.sticks, y.sticks)

\* Symbol.is_reachable_from
IsReachableFrom(self, other) ==
    /\ SticksLen(self.sticks) = SticksLen(other.sticks) + 1
    /\ \E stick \in self.sticks.sticks :
           SticksEq(other.sticks, SticksSub(self.sticks, stick))

\* Symbol.removal_set: anonymous symbols, one per removal variant.
SymRemovalSet(self) ==
    {Symbol(sticks, << >>, "", "Symbol") :
        sticks \in SticksRemovalSet(self.sticks)}

Min2(a, b) == IF a < b THEN a ELSE b

\* The sticks a pattern character stands for at (row_id, col_id).
PatternValueSticks(pattern_value, row_id, col_id) ==
    CASE pattern_value = "|" -> {Stick(row_id, col_id, VERTICAL)}
      [] pattern_value = "_" -> {Stick(row_id, col_id, HORIZONTAL)}
      [] pattern_value = "+" -> {Stick(row_id, col_id, VERTICAL),
                                 Stick(row_id, col_id, HORIZONTAL)}
      [] OTHER -> {}

\* Symbol.with_pattern: the rows and columns of the class's full stick set,
\* zipped with the pattern's rows and characters.
WithPattern(all_sticks, pattern) ==
    LET all_cols == Sorted({s.column : s \in all_sticks.sticks})
        all_rows == Sorted({s.row : s \in all_sticks.sticks})
    IN  StickCollection(
            UNION {UNION {PatternValueSticks(pattern[m][n],
                                             all_rows[m], all_cols[n]) :
                              n \in 1 .. Min2(Len(all_cols), Len(pattern[m]))} :
                       m \in 1 .. Min2(Len(all_rows), Len(pattern))})

\* Digit.with_pattern / Operator.with_pattern / EqualityOperator.with_pattern
Digit(pattern, code, name) ==
    Symbol(WithPattern(DIGIT_STICKS, pattern), code, name, "Digit")
Operator(pattern, code, name) ==
    Symbol(WithPattern(OPERATOR_STICKS, pattern), code, name, "Operator")
EqualityOperator(pattern, code, name) ==
    Symbol(WithPattern(OPERATOR_STICKS, pattern), code, name,
           "EqualityOperator")

\* ----------------------------------------------------- the glyph catalog

blank ==
    Digit(<<
          <<" ", " ", " ">>,
          <<" ", " ", " ">>,
          <<" ", " ", " ">>>>,
        << >>, "blank")

zero ==
    Digit(<<
          <<" ", "_", " ">>,
          <<"|", " ", "|">>,
          <<"|", "_", "|">>>>,
        <<"0">>, "zero")

one_a ==
    Digit(<<
          <<" ", " ", " ">>,
          <<"|", " ", " ">>,
          <<"|", " ", " ">>>>,
        <<"1">>, "one_double")

one_b ==
    Digit(<<
          <<" ", " ", " ">>,
          <<"|", " ", " ">>,
          <<" ", " ", " ">>>>,
        <<"1">>, "one_single")

two ==
    Digit(<<
          <<" ", "_", " ">>,
          <<" ", "_", "|">>,
          <<"|", "_", " ">>>>,
        <<"2">>, "two")

three ==
    Digit(<<
          <<" ", "_", " ">>,
          <<" ", "_", "|">>,
          <<" ", "_", "|">>>>,
        <<"3">>, "three")

four ==
    Digit(<<
          <<" ", " ", " ">>,
          <<"|", "_", "|">>,
          <<" ", " ", "|">>>>,
        <<"4">>, "four")

five ==
    Digit(<<
          <<" ", "_", " ">>,
          <<"|", "_", " ">>,
          <<" ", "_", "|">>>>,
        <<"5">>, "five")

six_a ==
    Digit(<<
          <<" ", "_", " ">>,
          <<"|", "_", " ">>,
          <<"|", "_", "|">>>>,
        <<"6">>, "six")

six_b ==
    Digit(<<
          <<" ", " ", " ">>,
          <<"|", "_", " ">>,
          <<"|", "_", "|">>>>,
        <<"6">>, "six_alt")

seven_a ==
    Digit(<<
          <<" ", "_", " ">>,
          <<" ", " ", "|">>,
          <<" ", " ", "|">>>>,
        <<"7">>, "seven")

seven_b ==
    Digit(<<
          <<" ", "_", " ">>,
          <<"|", " ", "|">>,
          <<" ", " ", "|">>>>,
        <<"7">>, "seven_alt")

eight ==
    Digit(<<
          <<" ", "_", " ">>,
          <<"|", "_", "|">>,
          <<"|", "_", "|">>>>,
        <<"8">>, "eight")

nine_a ==
    Digit(<<
          <<" ", "_", " ">>,
          <<"|", "_", "|">>,
          <<" ", " ", "|">>>>,
        <<"9">>, "nine")

nine_b ==
    Digit(<<
          <<" ", "_", " ">>,
          <<"|", "_", "|">>,
          <<" ", "_", "|">>>>,
        <<"9">>, "nine_alt")

plus_a ==
    Operator(<<
          <<"_">>,
          <<" ">>,
          <<" ">>,
          <<"|">>>>,
        <<"+">>, "plus_high")

plus_b ==
    Operator(<<
          <<" ">>,
          <<"_">>,
          <<" ">>,
          <<"|">>>>,
        <<"+">>, "plus")

plus_c ==
    Operator(<<
          <<" ">>,
          <<" ">>,
          <<"_">>,
          <<"|">>>>,
        <<"+">>, "plus_low")

minus ==
    Operator(<<
          <<"_">>,
          <<" ">>,
          <<" ">>,
          <<" ">>>>,
        <<"-">>, "minus")

eq_a ==
    EqualityOperator(<<
          <<"_">>,
          <<"_">>,
          <<" ">>,
          <<" ">>>>,
        <<"=", "=">>, "eq")

eq_b ==
    EqualityOperator(<<
          <<"_">>,
          <<" ">>,
          <<"_">>,
          <<" ">>>>,
        <<"=", "=">>, "eq_alt")

neq_a ==
    EqualityOperator(<<
          <<"_">>,
          <<"_">>,
          <<" ">>,
          <<"|">>>>,
        <<"!", "=">>, "neq_high")

neq_b ==
    EqualityOperator(<<
          <<"_">>,
          <<" ">>,
          <<"_">>,
          <<"|">>>>,
        <<"!", "=">>, "neq")

neq_c ==
    EqualityOperator(<<
          <<" ">>,
          <<"_">>,
          <<"_">>,
          <<"|">>>>,
        <<"!", "=">>, "neq_low")

DIGITS == <<blank, zero, one_a, one_b, two, three, four, five, six_a, six_b,
            seven_a, seven_b, eight, nine_a, nine_b>>

OPERATORS == <<plus_a, plus_b, plus_c, minus, eq_a, eq_b, neq_a, neq_b, neq_c>>

\* --------------------------------------------------------- SymbolCollection

\* The key a dict or set files a Symbol under: __hash__ and __eq__ go by the
\* normalized sticks.
SymKey(symbol) == symbol.sticks.normalized_sticks

\* dict.setdefault(symbol, set())
SetDefault(map, symbol) ==
    IF SymKey(symbol) \in DOMAIN map THEN map
    ELSE [k \in DOMAIN map \cup {SymKey(symbol)} |->
              IF k \in DOMAIN map THEN map[k] ELSE {}]

\* set.add(symbol): a symbol equal to a member is not added again.
SetAdd(S, symbol) ==
    IF \E z \in S : SymEq(z, symbol) THEN S ELSE S \cup {symbol}

RECURSIVE SetAddAll(_, _)
SetAddAll(S, seq) ==
    IF seq = << >> THEN S ELSE SetAddAll(SetAdd(S, Head(seq)), Tail(seq))

\* map[symbol_in].add(symbol_out) for every symbol_out of outs, in order.
AddAllTo(map, symbol_in, outs) ==
    [map EXCEPT ![SymKey(symbol_in)] = SetAddAll(@, outs)]

\* symbol in map[key_symbol]
InMap(map, key_symbol, symbol) ==
    /\ SymKey(key_symbol) \in DOMAIN map
    /\ \E z \in map[SymKey(key_symbol)] : SymEq(z, symbol)

\* Variant of lines 262-264 with the two symbols of the test exchanged.
AdditionOutsSwapped(symbols, symbol_in) ==
    SelectSeq(symbols, LAMBDA symbol_out : IsReachableFrom(symbol_in, symbol_out))

\* Lines 262-264: the symbols one added stick away from symbol_in.
AdditionOuts(symbols, symbol_in) ==
    SelectSeq(symbols, LAMBDA symbol_out : IsReachableFrom(symbol_out, symbol_in))

\* Lines 262, 265-266: the symbols one removed stick away from symbol_in.
RemovalOuts(symbols, symbol_in) ==
    SelectSeq(symbols, LAMBDA symbol_out : IsReachableFrom(symbol_in, symbol_out))

\* Lines 267-270: the symbols one added stick away from some removal variant
\* of symbol_in.
MoveOuts(symbols, symbol_in) ==
    SelectSeq(symbols,
              LAMBDA symbol_out :
                  \E intermediate \in SymRemovalSet(symbol_in) :
                      IsReachableFrom(symbol_out, intermediate))

\* -------------------------------------------------------------- Expression

\* Expression.substitute_symbol (index is 0-based)
SubstituteSymbol(expr, new_symbol, index) ==
    [expr EXCEPT ![index + 1] = new_symbol]

\* Expression.code: the characters of the symbols' codes, in order.
RECURSIVE Code(_)
Code(expr) ==
    IF expr = << >> THEN << >> ELSE Head(expr).code \o Code(Tail(expr))

\* The outcome of an evaluation: a bool, an int, or the ValueError raised.
BoolResult(b) == [tag |-> "bool", b |-> b, n |-> 0]
IntResult(n) == [tag |-> "int", b |-> FALSE, n |-> n]
ValueError == [tag |-> "error", b |-> FALSE, n |-> 0]

\* Variant of line 648 that tests `result == True`, which 1 passes too.
IsTrueEquals(r) == (r.tag = "bool" /\ r.b) \/ (r.tag = "int" /\ r.n = 1)

\* Line 648: `result is True`
IsTrue(r) == r.tag = "bool" /\ r.b

\* Python truth of a result, as `and` tests it.
Truthy(r) == (r.tag = "bool" /\ r.b) \/ (r.tag = "int" /\ r.n # 0)

\* ------------------------------------------------- eval of the code string

DigitChars == {"0", "1", "2", "3", "4", "5", "6", "7", "8", "9"}
OctalChars == {"0", "1", "2", "3", "4", "5", "6", "7"}

DigitValue(c) ==
    CASE c = "0" -> 0 [] c = "1" -> 1 [] c = "2" -> 2 [] c = "3" -> 3
      [] c = "4" -> 4 [] c = "5" -> 5 [] c = "6" -> 6 [] c = "7" -> 7
      [] c = "8" -> 8 [] c = "9" -> 9

\* The position after the run of digits that starts at p.
RECURSIVE DigitRunEnd(_, _)
DigitRunEnd(chars, p) ==
    IF p <= Len(chars) /\ chars[p] \in DigitChars
    THEN DigitRunEnd(chars, p + 1) ELSE p

\* The tokenizer: a maximal run of digits is one number token, == and != are
\* one token each, every other character is a token of its own.
RECURSIVE Tokenize(_, _)
Tokenize(chars, p) ==
    IF p > Len(chars) THEN << >>
    ELSE IF chars[p] \in DigitChars
    THEN LET q == DigitRunEnd(chars, p)
         IN  <<[type |-> "num", text |-> SubSeq(chars, p, q - 1)]>>
                 \o Tokenize(chars, q)
    ELSE IF chars[p] \in {"=", "!"} /\ p < Len(chars) /\ chars[p + 1] = "="
    THEN <<[type |-> "op", text |-> <<chars[p], "=">>]>>
             \o Tokenize(chars, p + 2)
    ELSE <<[type |-> "op", text |-> <<chars[p]>>]>> \o Tokenize(chars, p + 1)

\* An integer literal of Python 2: a literal of several digits that starts
\* with 0 is octal, and is an invalid token if it holds an 8 or a 9.
NumberValid(text) ==
    \/ Len(text) = 1
    \/ text[1] # "0"
    \/ \A m \in 1 .. Len(text) : text[m] \in OctalChars

RECURSIVE DigitsValue(_, _, _)
DigitsValue(text, base, acc) ==
    IF text = << >> THEN acc
    ELSE DigitsValue(Tail(text), base, acc * base + DigitValue(Head(text)))

NumberValue(text) ==
    IF text[1] = "0" THEN DigitsValue(text, 8, 0) ELSE DigitsValue(text, 10, 0)

IsCompOp(tok) == tok.type = "op" /\ tok.text \in {<<"=", "=">>, <<"!", "=">>}
IsSignOp(tok) == tok.type = "op" /\ tok.text \in {<<"+">>, <<"-">>}

\* arith_expr over numbers, + and -: factor (('+'|'-') factor)*, a factor
\* being a number under any run of unary signs.  With tokens that are only
\* numbers and signs it parses iff it is not empty and ends with a number.
ArithValid(toks) ==
    /\ toks # << >>
    /\ \A m \in 1 .. Len(toks) :
           \/ toks[m].type = "num" /\ NumberValid(toks[m].text)
           \/ IsSignOp(toks[m])
    /\ toks[Len(toks)].type = "num"

\* Its value: each number counts with the product of the signs before it
\* since the previous number.
RECURSIVE ArithValue(_, _, _)
ArithValue(toks, sign, acc) ==
    IF toks = << >> THEN acc
    ELSE IF Head(toks).type = "num"
    THEN ArithValue(Tail(toks), 1, acc + sign * NumberValue(Head(toks).text))
    ELSE ArithValue(Tail(toks),
                    IF Head(toks).text = <<"-">> THEN -sign ELSE sign, acc)

Compare(op, x, y) == IF op = <<"=", "=">> THEN x = y ELSE x # y

SyntaxError == [tag |-> "syntax_error", b |-> FALSE, n |-> 0]

\* eval(code): comparison: arith_expr (comp_op arith_expr)*, a chain of
\* comparisons being the conjunction of the adjacent ones.
PyEval(chars) ==
    LET toks == Tokenize(chars, 1)
        cmp == SelectSeq([m \in 1 .. Len(toks) |-> m],
                         LAMBDA m : IsCompOp(toks[m]))
        cuts == <<0>> \o cmp \o <<Len(toks) + 1>>
        segs == [m \in 1 .. Len(cmp) + 1 |->
                     SubSeq(toks, cuts[m] + 1, cuts[m + 1] - 1)]
        val(m) == ArithValue(segs[m], 1, 0)
    IN  IF \E m \in 1 .. Len(segs) : ~ArithValid(segs[m]) THEN SyntaxError
        ELSE IF cmp = << >> THEN IntResult(val(1))
        ELSE BoolResult(\A m \in 1 .. Len(cmp) :
                            Compare(toks[cmp[m]].text, val(m), val(m + 1)))

\* ----------------------------------------------------- Expression.evaluate

\* Line 315: the 0-based positions of the equality operators, in order.
EqualityOperatorsOf(symbols) ==
    SelectSeq([m \in 1 .. Len(symbols) |-> m - 1],
              LAMBDA i : symbols[i + 1].kind = "EqualityOperator")

\* Variant of lines 317-318 whose highs are the operators themselves.
BoundariesAdjacent(equality_operators, length) ==
    LET lows == <<-1>> \o SubSeq(equality_operators, 1,
                                 Len(equality_operators) - 1)
        highs == equality_operators
    IN  [m \in 1 .. Min2(Len(lows), Len(highs)) |-> <<lows[m], highs[m]>>]

\* Lines 317-318: zip([-1] + eqs[:-1], eqs[1:] + [len(symbols)])
Boundaries(equality_operators, length) ==
    LET lows == <<-1>> \o SubSeq(equality_operators, 1,
                                 Len(equality_operators) - 1)
        highs == SubSeq(equality_operators, 2, Len(equality_operators))
                     \o <<length>>
    IN  [m \in 1 .. Min2(Len(lows), Len(highs)) |-> <<lows[m], highs[m]>>]

\* Lines 319-326: symbols[(low + 1):high] for each boundary.
EqualitySubexpressions(symbols) ==
    LET b == Boundaries(EqualityOperatorsOf(symbols), Len(symbols))
    IN  [m \in 1 .. Len(b) |-> SubSeq(symbols, b[m][1] + 2, b[m][2])]

RECURSIVE Evaluate(_)
RECURSIVE ChainResult(_, _, _)

\* Lines 327-330: result = result and exp.evaluate(), for each
\* sub-expression in order; a false result is kept without evaluating exp,
\* and an error raised by exp ends the loop.
ChainResult(subs, m, result) ==
    IF m > Len(subs) THEN result
    ELSE IF ~Truthy(result) THEN ChainResult(subs, m + 1, result)
    ELSE LET r == Evaluate(subs[m])
         IN  IF r.tag = "error" THEN r ELSE ChainResult(subs, m + 1, r)

\* Expression.evaluate
Evaluate(symbols) ==
    IF Len(EqualityOperatorsOf(symbols)) > 1
    THEN ChainResult(EqualitySubexpressions(symbols), 1, BoolResult(TRUE))
    ELSE LET r == PyEval(Code(symbols))
         IN  IF r = SyntaxError THEN ValueError ELSE r

\* ------------------------------------------------------------------- state

VARIABLES
    pc,                                 \* where the run stands
    catalog_symbols,                    \* SymbolCollection.symbols
    built,                              \* symbols the constructor has handled
    reachable_with_addition_by_symbol,
    reachable_with_removal_by_symbol,
    reachable_with_move_by_symbol,
    expression,                         \* the base expression
    source_index,
    dest_index,
    pending,                            \* replacements of this pair not yet tested
    valid_substitutions,
    eval_symbols,                       \* the expression given to evaluate()
    eval_result,
    sticks_a,                           \* the sticks given to StickCollection
    sticks_b,
    shape_a,
    shape_b

catalog_vars == <<catalog_symbols, built, reachable_with_addition_by_symbol,
                  reachable_with_removal_by_symbol,
                  reachable_with_move_by_symbol>>
search_vars == <<expression, source_index, dest_index, pending,
                 valid_substitutions>>
eval_vars == <<eval_symbols, eval_result>>
shape_vars == <<sticks_a, sticks_b, shape_a, shape_b>>
vars == <<pc, catalog_vars, search_vars, eval_vars, shape_vars>>

EmptyDict == [k \in {} |-> {}]

\* Line 623: DIGITS + OPERATORS
FullAlphabet == DIGITS \o OPERATORS

\* Lines 625-627
SourceExpression ==
    <<blank, six_a, blank, plus_b, blank, four, blank, eq_b, blank, four, blank>>

\* The puzzle instances searched: the one of the source, and two more built
\* the same way (9-4=4 and 1+1=3).
Bases ==
    {SourceExpression,
     <<blank, nine_a, blank, minus, blank, four, blank, eq_b, blank, four, blank>>,
     <<one_b, plus_b, one_b, eq_a, three>>}

NoCatalog ==
    /\ catalog_symbols = << >>
    /\ built = 0
    /\ reachable_with_addition_by_symbol = EmptyDict
    /\ reachable_with_removal_by_symbol = EmptyDict
    /\ reachable_with_move_by_symbol = EmptyDict

NoSearch ==
    /\ expression = << >>
    /\ source_index = 0
    /\ dest_index = 0
    /\ pending = {}
    /\ valid_substitutions = EmptyDict

NoEval ==
    /\ eval_symbols = << >>
    /\ eval_result = ValueError

NoShape ==
    /\ sticks_a = {}
    /\ sticks_b = {}
    /\ shape_a = StickCollection({})
    /\ shape_b = StickCollection({})

\* ------------------------------------------- SymbolCollection.__init__ steps

\* One pass of the outer loop of lines 258-270, for the next symbol_in.
BuildSymbol ==
    /\ pc = "build"
    /\ built < Len(catalog_symbols)
    /\ LET symbol_in == catalog_symbols[built + 1]
       IN  /\ reachable_with_removal_by_symbol' =
                  AddAllTo(SetDefault(reachable_with_removal_by_symbol, symbol_in),
                           symbol_in, RemovalOuts(catalog_symbols, symbol_in))
           /\ reachable_with_addition_by_symbol' =
                  AddAllTo(SetDefault(reachable_with_addition_by_symbol, symbol_in),
                           symbol_in, AdditionOuts(catalog_symbols, symbol_in))
           /\ reachable_with_move_by_symbol' =
                  AddAllTo(SetDefault(reachable_with_move_by_symbol, symbol_in),
                           symbol_in, MoveOuts(catalog_symbols, symbol_in))
    /\ built' = built + 1
    /\ UNCHANGED <<pc, catalog_symbols, search_vars, eval_vars, shape_vars>>

\* ------------------------------------------------------ substitution search

\* Variant of lines 669-670 that takes the source replacement from the
\* addition map.
CandidatesFromAddition(expr, i, j, move_map, removal_map, addition_map) ==
    IF i = j
    THEN {<<c, c>> : c \in move_map[SymKey(expr[i + 1])]}
    ELSE {<<s, d>> : s \in addition_map[SymKey(expr[i + 1])],
                     d \in addition_map[SymKey(expr[j + 1])]}

\* Lines 664-671: the replacement pairs tried for the position pair (i, j).
Candidates(expr, i, j, move_map, removal_map, addition_map) ==
    IF i = j
    THEN {<<c, c>> : c \in move_map[SymKey(expr[i + 1])]}
    ELSE {<<s, d>> : s \in removal_map[SymKey(expr[i + 1])],
                     d \in addition_map[SymKey(expr[j + 1])]}

\* Lines 636-642
NewExpression(expr, i, j, new_source_symbol, new_dest_symbol) ==
    SubstituteSymbol(SubstituteSymbol(expr, new_source_symbol, i),
                     new_dest_symbol, j)

\* Lines 649-658: the nested setdefault chain, as one dict keyed by
\* (source_index, dest_index, source code, dest code).
Record(subs, key, new_expression) ==
    [k \in DOMAIN subs \cup {key} |->
        IF k = key THEN new_expression ELSE subs[k]]

\* Variant of _test_substitution that tests `if result`.
TestSubstitutionTruthy(subs, expr, i, j, new_source_symbol, new_dest_symbol) ==
    LET new_expression ==
            NewExpression(expr, i, j, new_source_symbol, new_dest_symbol)
        r == Evaluate(new_expression)
    IN  IF r.tag = "error" THEN subs
        ELSE IF Truthy(r)
        THEN Record(subs, <<i, j, new_source_symbol.code, new_dest_symbol.code>>,
                    new_expression)
        ELSE subs

\* Variant of _test_substitution that files under the dest code twice.
TestSubstitutionDestKey(subs, expr, i, j, new_source_symbol, new_dest_symbol) ==
    LET new_expression ==
            NewExpression(expr, i, j, new_source_symbol, new_dest_symbol)
        r == Evaluate(new_expression)
    IN  IF r.tag = "error" THEN subs
        ELSE IF IsTrue(r)
        THEN Record(subs, <<i, j, new_dest_symbol.code, new_dest_symbol.code>>,
                    new_expression)
        ELSE subs

\* _test_substitution: valid_substitutions after the call.
TestSubstitution(subs, expr, i, j, new_source_symbol, new_dest_symbol) ==
    LET new_expression ==
            NewExpression(expr, i, j, new_source_symbol, new_dest_symbol)
        r == Evaluate(new_expression)
    IN  IF r.tag = "error" THEN subs
        ELSE IF IsTrue(r)
        THEN Record(subs, <<i, j, new_source_symbol.code, new_dest_symbol.code>>,
                    new_expression)
        ELSE subs

CandidatesNow(i, j) ==
    Candidates(expression, i, j, reachable_with_move_by_symbol,
               reachable_with_removal_by_symbol,
               reachable_with_addition_by_symbol)

\* Line 661, and the entry into the loops of lines 662-663.
StartSearch ==
    /\ pc = "build"
    /\ built = Len(catalog_symbols)
    /\ pc' = "search"
    /\ valid_substitutions' = EmptyDict
    /\ source_index' = 0
    /\ dest_index' = 0
    /\ pending' = CandidatesNow(0, 0)
    /\ UNCHANGED <<catalog_vars, expression, eval_vars, shape_vars>>

\* One call of _test_substitution (lines 667, 671).  The replacements of one
\* pair come out of Python sets, whose order is not specified.
TestOne ==
    /\ pc = "search"
    /\ \E c \in pending :
           /\ pending' = pending \ {c}
           /\ valid_substitutions' =
                  TestSubstitution(valid_substitutions, expression,
                                   source_index, dest_index, c[1], c[2])
    /\ UNCHANGED <<pc, catalog_vars, expression, source_index, dest_index,
                   eval_vars, shape_vars>>

\* Lines 662-663: the next (source_index, dest_index), or the end of the loops.
NextPair ==
    /\ pc = "search"
    /\ pending = {}
    /\ IF dest_index + 1 < Len(expression)
       THEN /\ dest_index' = dest_index + 1
            /\ source_index' = source_index
            /\ pending' = CandidatesNow(source_index, dest_index + 1)
            /\ pc' = pc
       ELSE IF source_index + 1 < Len(expression)
       THEN /\ dest_index' = 0
            /\ source_index' = source_index + 1
            /\ pending' = CandidatesNow(source_index + 1, 0)
            /\ pc' = pc
       ELSE /\ pc' = "done"
            /\ UNCHANGED <<source_index, dest_index, pending>>
    /\ UNCHANGED <<catalog_vars, expression, valid_substitutions, eval_vars,
                   shape_vars>>

Init ==
    /\ pc = "build"
    /\ catalog_symbols = FullAlphabet
    /\ built = 0
    /\ reachable_with_addition_by_symbol = EmptyDict
    /\ reachable_with_removal_by_symbol = EmptyDict
    /\ reachable_with_move_by_symbol = EmptyDict
    /\ expression \in Bases
    /\ source_index = 0
    /\ dest_index = 0
    /\ pending = {}
    /\ valid_substitutions = EmptyDict
    /\ NoEval
    /\ NoShape

Next == BuildSymbol \/ StartSearch \/ TestOne \/ NextPair

Spec == Init /\ [][Next]_vars

\* ---------------------------------------------------- claims on the search

Positions == 0 .. Len(expression) - 1

\* The replacement pairs the claims speak of for (i, j), read off the three
\* maps of the catalog.
ReplacementPairs(i, j) ==
    IF i = j
    THEN {<<c, c>> : c \in reachable_with_move_by_symbol[SymKey(expression[i + 1])]}
    ELSE reachable_with_removal_by_symbol[SymKey(expression[i + 1])]
             \X reachable_with_addition_by_symbol[SymKey(expression[j + 1])]

\* Base with position i replaced by p[1] and position j by p[2].
Replaced(i, j, p) == [[expression EXCEPT ![i + 1] = p[1]] EXCEPT ![j + 1] = p[2]]

KeyOf(i, j, p) == <<i, j, p[1].code, p[2].code>>

Searching == pc \in {"search", "done"}

\* C1: for the base 6+4=4 over the full alphabet the finished search holds
\* at least one entry, and every expression it ever records evaluates to
\* exactly true, by evaluate() and by eval of its code().
C1_EndToEnd ==
    (Searching /\ expression = SourceExpression) =>
        /\ pc = "done" => DOMAIN valid_substitutions # {}
        /\ \A k \in DOMAIN valid_substitutions :
               /\ IsTrue(Evaluate(valid_substitutions[k]))
               /\ IsTrue(PyEval(Code(valid_substitutions[k])))

\* The search of 6+4=4 has ended and holds 0+4=4, the 6 turned into a 0.
C1_Witness ==
    /\ pc = "done"
    /\ expression = SourceExpression
    /\ <<1, 1, <<"0">>, <<"0">>>> \in DOMAIN valid_substitutions
    /\ Code(valid_substitutions[<<1, 1, <<"0">>, <<"0">>>>])
           = <<"0", "+", "4", "=", "=", "4">>

\* C2: a replacement whose expression evaluates to an int, whatever its
\* value, has no entry in valid_substitutions.
C2_IntNeverRecorded ==
    Searching =>
        \A i \in Positions, j \in Positions :
            \A p \in ReplacementPairs(i, j) :
                Evaluate(Replaced(i, j, p)).tag = "int" =>
                    KeyOf(i, j, p) \notin DOMAIN valid_substitutions

\* The search has ended having met a replacement without equality operator
\* of value 1 and one of another non-zero value, and holds neither.
C2_Witness ==
    /\ pc = "done"
    /\ \E i \in Positions, j \in Positions :
           \E p \in ReplacementPairs(i, j) :
               /\ EqualityOperatorsOf(Replaced(i, j, p)) = << >>
               /\ Evaluate(Replaced(i, j, p)) = IntResult(1)
               /\ KeyOf(i, j, p) \notin DOMAIN valid_substitutions
    /\ \E i \in Positions, j \in Positions :
           \E p \in ReplacementPairs(i, j) :
               /\ Evaluate(Replaced(i, j, p)).tag = "int"
               /\ Evaluate(Replaced(i, j, p)).n \notin {0, 1}
               /\ KeyOf(i, j, p) \notin DOMAIN valid_substitutions

TrueKeys ==
    UNION {{KeyOf(i, j, p) :
                p \in {q \in ReplacementPairs(i, j) :
                           IsTrue(Evaluate(Replaced(i, j, q)))}} :
               <<i, j>> \in Positions \X Positions}

\* C3: when the search has ended, the keys of valid_substitutions are
\* exactly the keys (i, j, source code, dest code) of the replacements whose
\* expression evaluates to exactly true.
C3_Complete ==
    pc = "done" => DOMAIN valid_substitutions = TrueKeys

\* The search has ended with an entry for a move within one position and an
\* entry for a stick taken from one position and added to another.
C3_Witness ==
    /\ pc = "done"
    /\ \E k \in DOMAIN valid_substitutions : k[1] = k[2]
    /\ \E k \in DOMAIN valid_substitutions : k[1] # k[2] /\ k[3] # k[4]

RECURSIVE TotalSticks(_)
TotalSticks(expr) ==
    IF expr = << >> THEN 0
    ELSE SticksLen(Head(expr).sticks) + TotalSticks(Tail(expr))

\* C10: every replacement about to be tried keeps the number of sticks of
\* the expression: one stick fewer at the source and one more at the dest
\* for two positions, as many as before for a move within one position.
C10_SticksConserved ==
    pc = "search" =>
        \A c \in pending :
            /\ TotalSticks(NewExpression(expression, source_index, dest_index,
                                         c[1], c[2]))
                   = TotalSticks(expression)
            /\ source_index = dest_index =>
                   SticksLen(c[1].sticks)
                       = SticksLen(expression[source_index + 1].sticks)
            /\ source_index # dest_index =>
                   /\ SticksLen(c[1].sticks)
                          = SticksLen(expression[source_index + 1].sticks) - 1
                   /\ SticksLen(c[2].sticks)
                          = SticksLen(expression[dest_index + 1].sticks) + 1

\* Replacements for two different positions are about to be tried, after a
\* move within one position has been tried and recorded.
C10_Witness ==
    /\ pc = "search"
    /\ source_index # dest_index
    /\ pending # {}
    /\ \E k \in DOMAIN valid_substitutions : k[1] = k[2]

\* ------------------------------------------- the catalog of any alphabet

Range(seq) == {seq[m] : m \in 1 .. Len(seq)}

\* The alphabets a catalog is built from: the one of the source, and every
\* list of at most MaxAlphabet of its glyphs.
InitCatalog ==
    /\ pc = "build"
    /\ \/ catalog_symbols = FullAlphabet
       \/ \E n \in 0 .. MaxAlphabet :
              \E f \in [1 .. n -> 1 .. Len(FullAlphabet)] :
                  catalog_symbols = [m \in 1 .. n |-> FullAlphabet[f[m]]]
    /\ built = 0
    /\ reachable_with_addition_by_symbol = EmptyDict
    /\ reachable_with_removal_by_symbol = EmptyDict
    /\ reachable_with_move_by_symbol = EmptyDict
    /\ NoSearch
    /\ NoEval
    /\ NoShape

NextCatalog == BuildSymbol

SpecCatalog == InitCatalog /\ [][NextCatalog]_vars

CatalogBuilt == pc = "build" /\ built = Len(catalog_symbols)

\* C7: in the finished catalog of any alphabet, y is in additionMap[x]
\* exactly when x is in removalMap[y], and every member of the alphabet has
\* an entry in each of the three maps.
C7_InverseLaw ==
    CatalogBuilt =>
        \A x \in Range(catalog_symbols) :
            /\ SymKey(x) \in DOMAIN reachable_with_addition_by_symbol
            /\ SymKey(x) \in DOMAIN reachable_with_removal_by_symbol
            /\ SymKey(x) \in DOMAIN reachable_with_move_by_symbol
            /\ \A y \in Range(catalog_symbols) :
                   InMap(reachable_with_addition_by_symbol, x, y)
                       <=> InMap(reachable_with_removal_by_symbol, y, x)

\* The catalog of the full alphabet is finished: 8 is in additionMap[6], 6
\* is in removalMap[8], and blank has an empty removalMap entry.
C7_Witness ==
    /\ CatalogBuilt
    /\ catalog_symbols = FullAlphabet
    /\ InMap(reachable_with_addition_by_symbol, six_a, eight)
    /\ InMap(reachable_with_removal_by_symbol, eight, six_a)
    /\ reachable_with_removal_by_symbol[SymKey(blank)] = {}

GridSticks == DIGIT_STICKS.sticks \cup OPERATOR_STICKS.sticks

MaxOf(S) == CHOOSE m \in S : \A x \in S : x <= m

\* Every place a stick may be put down: the glyph grids, and as far beyond
\* them on every side as a grid is wide and high.
Around(S) == (2 * MinOf(S) - MaxOf(S)) .. (2 * MaxOf(S) - MinOf(S))

Cells ==
    {Stick(r, c, o) : r \in Around({s.row : s \in GridSticks}),
                      c \in Around({s.column : s \in GridSticks}),
                      o \in {VERTICAL, HORIZONTAL}}

\* y's shape is x's shape with one stick taken off and put down at another
\* place than the one it was taken from.
Relocation(x, y) ==
    \E t \in x.sticks.sticks :
        \E u \in Cells \ x.sticks.sticks :
            SticksEq(StickCollection((x.sticks.sticks \ {t}) \cup {u}),
                     y.sticks)

\* C6: in the finished catalog, every member of moveMap[x] is x with one
\* stick taken off and put down at another place than the one it was taken
\* from.
C6_MoveIsRelocation ==
    CatalogBuilt =>
        \A x \in Range(catalog_symbols) :
            \A y \in reachable_with_move_by_symbol[SymKey(x)] :
                Relocation(x, y)

\* ------------------------------------------------- evaluate() on any input

OperandPool == <<zero, two, eight, plus_b, minus>>
EqualityPool == <<eq_a, neq_b>>
ShortOperands == <<<< >>, <<blank>>, <<two>>, <<eight>>, <<plus_b>>>>

\* operands[1] ops[1] operands[2] ... ops[n] operands[n + 1], from the m-th
\* operand on.
RECURSIVE Chain(_, _, _)
Chain(operands, ops, m) ==
    IF m > Len(ops) THEN operands[m]
    ELSE operands[m] \o <<ops[m]>> \o Chain(operands, ops, m + 1)

\* The expressions evaluated: a first operand of at most MaxOperandLen
\* symbols, alone or compared with a short one, and the chains of 2 to MaxEq
\* equality operators between short operands.
InitEval ==
    /\ pc = "input"
    /\ \/ \E n \in 0 .. MaxOperandLen :
              \E f \in [1 .. n -> 1 .. Len(OperandPool)] :
                  LET a == [m \in 1 .. n |-> OperandPool[f[m]]]
                  IN  \/ eval_symbols = a
                      \/ \E op \in 1 .. Len(EqualityPool) :
                             \E b \in 1 .. Len(ShortOperands) :
                                 eval_symbols =
                                     a \o <<EqualityPool[op]>> \o ShortOperands[b]
       \/ \E n \in 2 .. MaxEq :
              \E g \in [1 .. n + 1 -> 1 .. Len(ShortOperands)] :
                  \E h \in [1 .. n -> 1 .. Len(EqualityPool)] :
                      eval_symbols =
                          Chain([m \in 1 .. n + 1 |-> ShortOperands[g[m]]],
                                [m \in 1 .. n |-> EqualityPool[h[m]]], 1)
    /\ eval_result = ValueError
    /\ NoCatalog
    /\ NoSearch
    /\ NoShape

\* A call of Expression.evaluate
EvaluateExpression ==
    /\ pc = "input"
    /\ eval_result' = Evaluate(eval_symbols)
    /\ pc' = "evaluated"
    /\ UNCHANGED <<catalog_vars, search_vars, eval_symbols, shape_vars>>

NextEval == EvaluateExpression

SpecEval == InitEval /\ [][NextEval]_vars

NumEq == Len(EqualityOperatorsOf(eval_symbols))

\* The operand groups of the evaluated expression: what stands between the
\* start, the equality operators and the end.
OperandGroups ==
    LET eqs == EqualityOperatorsOf(eval_symbols)
        cuts == <<-1>> \o eqs \o <<Len(eval_symbols)>>
    IN  [m \in 1 .. Len(eqs) + 1 |->
            SubSeq(eval_symbols, cuts[m] + 2, cuts[m + 1])]

EqOp(m) == eval_symbols[EqualityOperatorsOf(eval_symbols)[m] + 1]

\* The m-th adjacent pair of operand groups, compared by the m-th operator.
PairHolds(m) ==
    Compare(EqOp(m).code, PyEval(Code(OperandGroups[m])).n,
            PyEval(Code(OperandGroups[m + 1])).n)

\* C4: a chain of n > 1 equality operators is cut into n sub-expressions,
\* the m-th being the m-th operator between its two operand groups, and if
\* all of them are valid the result is the conjunction of the n comparisons
\* of adjacent operand groups.
C4_ChainIsPairwise ==
    (pc = "evaluated" /\ NumEq > 1) =>
        LET subs == EqualitySubexpressions(eval_symbols)
        IN  /\ Len(subs) = NumEq
            /\ \A m \in 1 .. Len(subs) :
                   /\ Len(EqualityOperatorsOf(subs[m])) = 1
                   /\ subs[m] = OperandGroups[m] \o <<EqOp(m)>>
                                    \o OperandGroups[m + 1]
            /\ (\A m \in 1 .. NumEq : Evaluate(subs[m]) # ValueError) =>
                   eval_result = BoolResult(\A m \in 1 .. NumEq : PairHolds(m))

\* 2==2==8==2 has been evaluated: three sub-expressions, all valid, and the
\* result is false.
C4_Witness ==
    /\ pc = "evaluated"
    /\ eval_symbols = <<two, eq_a, two, eq_a, eight, eq_a, two>>
    /\ eval_result = BoolResult(FALSE)

\* 2==2==2==2 has been evaluated to true.
C4_WitnessTrue ==
    /\ pc = "evaluated"
    /\ eval_symbols = <<two, eq_a, two, eq_a, two, eq_a, two>>
    /\ eval_result = BoolResult(TRUE)

\* C5: a chain of more than one equality operator fails with the error as
\* soon as one of its sub-expressions fails, wherever it stands, and is a
\* bool otherwise.
C5_ErrorPropagates ==
    (pc = "evaluated" /\ NumEq > 1) =>
        LET subs == EqualitySubexpressions(eval_symbols)
        IN  IF \E m \in 1 .. Len(subs) : Evaluate(subs[m]) = ValueError
            THEN eval_result = ValueError
            ELSE eval_result.tag = "bool"

\* A + or - of the token string with no number on its left or on its right.
DanglingSign(toks) ==
    \E m \in 1 .. Len(toks) :
        /\ IsSignOp(toks[m])
        /\ \/ m = 1
           \/ m = Len(toks)
           \/ toks[m - 1].type # "num"
           \/ toks[m + 1].type # "num"

\* C9: with at most one equality operator, a token string in which a + or -
\* lacks an operand on its left or right fails with the error.
C9_DanglingSignFails ==
    (pc = "evaluated" /\ NumEq <= 1) =>
        (DanglingSign(Tokenize(Code(eval_symbols), 1)) =>
             eval_result = ValueError)

\* ------------------------------------------------- comparing any two shapes

\* The stick sets compared: at most MaxSticks of the places of the glyph
\* grids.
StickSets == {S \in SUBSET GridSticks : Cardinality(S) <= MaxSticks}

InitShape ==
    /\ pc = "sticks"
    /\ sticks_a \in StickSets
    /\ sticks_b \in StickSets
    /\ shape_a = StickCollection({})
    /\ shape_b = StickCollection({})
    /\ NoCatalog
    /\ NoSearch
    /\ NoEval

\* Two calls of StickCollection.__init__
Construct ==
    /\ pc = "sticks"
    /\ shape_a' = StickCollection(sticks_a)
    /\ shape_b' = StickCollection(sticks_b)
    /\ pc' = "shapes"
    /\ UNCHANGED <<catalog_vars, search_vars, eval_vars, sticks_a, sticks_b>>

NextShape == Construct

SpecShape == InitShape /\ [][NextShape]_vars

Shifts(S) == {x - y : x \in S, y \in S}

\* T is S with every stick shifted by the same rows and columns.
Translation(S, T) ==
    \E dr \in Shifts({s.row : s \in GridSticks}) :
        \E dc \in Shifts({s.column : s \in GridSticks}) :
            T = {Stick(s.row + dr, s.column + dc, s.orientation) : s \in S}

\* C8: two constructed shapes compare equal exactly when one is the other
\* with every stick shifted by the same rows and columns.
C8_EqualIffTranslation ==
    pc = "shapes" =>
        (SticksEq(shape_a, shape_b) <=> Translation(sticks_a, sticks_b))

\* Two shapes of MaxSticks sticks each, at different places, compare equal.
C8_Witness ==
    /\ pc = "shapes"
    /\ Cardinality(sticks_a) = MaxSticks
    /\ sticks_a # sticks_b
    /\ SticksEq(shape_a, shape_b)

====
